---- MODULE Spec2Model ----
(***************************************************************************)
(* Model of lt::retry: RetryStatus, RetryPolicy (apply, applyAndDelay,     *)
(* operator+, retry, simulate), the policy catalogue of policies.h and     *)
(* PreemptibleRetry (applyAndPreemptibleDelay, retry) together with the    *)
(* signalling thread of its usage contract.                                *)
(***************************************************************************)
EXTENDS Integers, Sequences, FiniteSets

(***************************************************************************)
(* Bounds of the model.                                                    *)
(***************************************************************************)
\* the retry loops stop taking new iterations at this iteration_number
MaxIter == 3
\* number of times the signalling thread changes the condition
MaxSignals == 2
\* largest n passed to simulate
MaxSimN == 3
\* the observation counters of blocking and spurious wake-ups saturate here
MaxCount == 1
\* largest clock value drawn for system_clock::now()
MaxNow == 3
\* largest b for which every value of uniform_int_distribution(0, b) is drawn
MaxDraw == 4

(***************************************************************************)
(* std::optional<T>                                                        *)
(***************************************************************************)
Nullopt == [has |-> FALSE, val |-> 0]
Some(v) == [has |-> TRUE, val |-> v]

Min(a, b) == IF a <= b THEN a ELSE b
Max(a, b) == IF a >= b THEN a ELSE b

(***************************************************************************)
(* RetryStatus{} and PreemptibleRetryStatus                                *)
(***************************************************************************)
RetryStatus0 ==
    [iteration_number |-> 0, cumulative_delay |-> 0, previous_delay |-> Nullopt]

PreemptibleRetryStatus(retry_status, signalled) ==
    [iteration_number    |-> retry_status.iteration_number,
     cumulative_delay    |-> retry_status.cumulative_delay,
     previous_delay      |-> retry_status.previous_delay,
     condition_signalled |-> signalled]

PreemptibleRetryStatus0 == PreemptibleRetryStatus(RetryStatus0, FALSE)

\* slicing a PreemptibleRetryStatus to its RetryStatus base
AsRetryStatus(s) ==
    [iteration_number |-> s.iteration_number,
     cumulative_delay |-> s.cumulative_delay,
     previous_delay   |-> s.previous_delay]

(***************************************************************************)
(* The policy catalogue.  A RetryPolicy value is the closure it was built  *)
(* from: the constructor's name, its captured argument and the captured    *)
(* policies.                                                               *)
(***************************************************************************)
neverRetry == [kind |-> "neverRetry", arg |-> 0, sub |-> <<>>]
limitRetries(retryLimit) == [kind |-> "limitRetries", arg |-> retryLimit, sub |-> <<>>]
constantDelay(delay) == [kind |-> "constantDelay", arg |-> delay, sub |-> <<>>]
fullJitter(max_delay) == [kind |-> "fullJitter", arg |-> max_delay, sub |-> <<>>]
limitCumulativeDelay(cumulativeDelayLimit, policy) ==
    [kind |-> "limitCumulativeDelay", arg |-> cumulativeDelayLimit, sub |-> <<policy>>]
limitTimePoint(time_point_limit, policy) ==
    [kind |-> "limitTimePoint", arg |-> time_point_limit, sub |-> <<policy>>]
limitRetriesByDelay(delayLimit, policy) ==
    [kind |-> "limitRetriesByDelay", arg |-> delayLimit, sub |-> <<policy>>]
capDelay(maxDelay, policy) == [kind |-> "capDelay", arg |-> maxDelay, sub |-> <<policy>>]
combine(x, y) == [kind |-> "combine", arg |-> 0, sub |-> <<x, y>>]
equalJitter(max_delay) == [kind |-> "equalJitter", arg |-> max_delay, sub |-> <<>>]
exponentialBackoff(base) == [kind |-> "exponentialBackoff", arg |-> base, sub |-> <<>>]
fullJitterBackoff(base) == [kind |-> "fullJitterBackoff", arg |-> base, sub |-> <<>>]
equalJitterBackoff(base) == [kind |-> "equalJitterBackoff", arg |-> base, sub |-> <<>>]
decorrelatedJitterBackoff(base) ==
    [kind |-> "decorrelatedJitterBackoff", arg |-> base, sub |-> <<>>]

(***************************************************************************)
(* One evaluation of a policy's closure.  The result is the set of         *)
(* outcomes the evaluation can have (one per draw of the random source):   *)
(*   delay   the std::optional returned,                                   *)
(*   evals   how many times the closure invoked its captured policies,     *)
(*   checked the captured policy's result the stop decision was taken on   *)
(*           (the returned delay itself for a policy that captures none).  *)
(***************************************************************************)
Outcome(delay, evals, checked) == [delay |-> delay, evals |-> evals, checked |-> checked]

neverRetryFn(status) == {Outcome(Nullopt, 0, Nullopt)}

\* variant of limitRetriesFn: the number of the coming iteration is compared
limitRetriesFn_Early(retryLimit, status) ==
    IF status.iteration_number + 1 >= retryLimit
    THEN {Outcome(Nullopt, 0, Nullopt)}
    ELSE {Outcome(Some(0), 0, Some(0))}

\* variant of limitRetriesFn: the limit is compared with > instead of >=
limitRetriesFn_OffByOne(retryLimit, status) ==
    IF status.iteration_number > retryLimit
    THEN {Outcome(Nullopt, 0, Nullopt)}
    ELSE {Outcome(Some(0), 0, Some(0))}

limitRetriesFn(retryLimit, status) ==
    IF status.iteration_number >= retryLimit
    THEN {Outcome(Nullopt, 0, Nullopt)}
    ELSE {Outcome(Some(0), 0, Some(0))}

constantDelayFn(delay, status) == {Outcome(Some(delay), 0, Some(delay))}

\* std::uniform_int_distribution<int>(0, max_delay): any value of 0..max_delay
fullJitterFn(max_delay, status) ==
    {Outcome(Some(d), 0, Some(d)) : d \in 0..max_delay}

\* variant of limitCumulativeDelayFn: the limit is compared with > instead of >=
limitCumulativeDelayFn_Greater(cumulativeDelayLimit, inner, status) ==
    {Outcome(IF o.delay.has /\ o.delay.val + status.cumulative_delay > cumulativeDelayLimit
             THEN Nullopt ELSE o.delay,
             1, o.delay) : o \in inner}

\* inner: the outcomes of policy(status)
limitCumulativeDelayFn(cumulativeDelayLimit, inner, status) ==
    {Outcome(IF o.delay.has /\ o.delay.val + status.cumulative_delay >= cumulativeDelayLimit
             THEN Nullopt ELSE o.delay,
             1, o.delay) : o \in inner}

\* the closure calls policy(status) for the test and, unless the test
\* returned, calls it again for the value it returns
limitTimePointFn(time_point_limit, inner, status, now) ==
    UNION {IF o1.delay.has /\ o1.delay.val + now > time_point_limit
           THEN {Outcome(Nullopt, 1, o1.delay)}
           ELSE {Outcome(o2.delay, 2, o1.delay) : o2 \in inner}
           : o1 \in inner}

limitRetriesByDelayFn(delayLimit, inner, status) ==
    {Outcome(IF o.delay.has /\ o.delay.val >= delayLimit THEN Nullopt ELSE o.delay,
             1, o.delay) : o \in inner}

capDelayFn(maxDelay, inner, status) ==
    {Outcome(IF o.delay.has THEN Some(Min(maxDelay, o.delay.val)) ELSE Nullopt,
             1, o.delay) : o \in inner}

(***************************************************************************)
(* The 32-bit int of static_cast<int> and std::uniform_int_distribution<int>. *)
(* std::chrono::microseconds counts are 64 bits wide; the values below     *)
(* stay far inside that width.                                             *)
(***************************************************************************)
INT_MAX == 2147483647
INT_MIN == -INT_MAX - 1

RECURSIVE Pow2(_)
Pow2(i) == IF i = 0 THEN 1 ELSE 2 * Pow2(i - 1)

\* static_cast<int>(std::pow(2, iteration_number)): the double 2^i converted
\* to int.  From i = 31 on the value does not fit an int and the conversion
\* is undefined; the builds in use give INT_MIN (x86 cvttsd2si) or INT_MAX
\* (a saturating conversion).
PowCast(i) == IF i <= 30 THEN {Pow2(i)} ELSE {INT_MIN, INT_MAX}

\* integer division of C++, which truncates toward zero
CDiv(a, b) == IF a >= 0 \/ a % b = 0 THEN a \div b ELSE (a \div b) + 1

\* p.count() * 3 converted to the int parameter of the distribution: the
\* 64-bit product modulo 2^32, as a signed value
Times3AsInt(p) ==
    IF p <= INT_MAX \div 3 THEN 3 * p ELSE ((p + INT_MIN) + p) + (p + INT_MIN)

\* distribution(generator) for std::uniform_int_distribution<int>(0, b).
\* A range of more than MaxDraw + 1 values is represented by its two lowest
\* and two highest values.  With b < 0 the behaviour is undefined; the
\* library then returns a value of INT_MIN..b or of 0..INT_MAX, of which b,
\* 0 and 1 are kept.
UniformInt(b) ==
    IF b < 0 THEN {b, 0, 1}
    ELSE IF b <= MaxDraw THEN 0..b
    ELSE {0, 1, b - 1, b}

equalJitterFn(max_delay, status) ==
    LET half_n == CDiv(max_delay, 2)
    IN  {Outcome(Some(half_n + d), 0, Some(half_n + d)) : d \in UniformInt(half_n)}

exponentialBackoffFn(base, status) ==
    {Outcome(Some(base * c), 0, Some(base * c)) : c \in PowCast(status.iteration_number)}

fullJitterBackoffFn(base, status) ==
    UNION {LET n == base * c
           IN  {Outcome(Some(d), 0, Some(d)) : d \in UniformInt(n)}
           : c \in PowCast(status.iteration_number)}

equalJitterBackoffFn(base, status) ==
    UNION {LET half_n == CDiv(base * c, 2)
           IN  {Outcome(Some(half_n + d), 0, Some(half_n + d)) : d \in UniformInt(half_n)}
           : c \in PowCast(status.iteration_number)}

\* base is captured and not used
decorrelatedJitterBackoffFn(base, status) ==
    IF status.previous_delay.has
    THEN LET prev == status.previous_delay.val
         IN  {Outcome(Some(d), 0, Some(d)) : d \in UniformInt(Times3AsInt(prev))}
    ELSE {Outcome(Nullopt, 0, Nullopt)}

\* variant of combineFn: the smaller of the two delays is returned
combineFn_Min(xs, ys) ==
    {Outcome(IF xresult.delay.has /\ yresult.delay.has
             THEN Some(Min(xresult.delay.val, yresult.delay.val))
             ELSE Nullopt,
             2, Nullopt) : xresult \in xs, yresult \in ys}

\* operator+ : xs, ys are the outcomes of x._policy(status), y._policy(status)
combineFn(xs, ys) ==
    {Outcome(IF xresult.delay.has /\ yresult.delay.has
             THEN Some(Max(xresult.delay.val, yresult.delay.val))
             ELSE Nullopt,
             2, Nullopt) : xresult \in xs, yresult \in ys}

\* RetryPolicy::operator() : _policy(status)
RECURSIVE call(_, _, _)
call(p, status, now) ==
    CASE p.kind = "neverRetry"     -> neverRetryFn(status)
      [] p.kind = "limitRetries"   -> limitRetriesFn(p.arg, status)
      [] p.kind = "constantDelay"  -> constantDelayFn(p.arg, status)
      [] p.kind = "fullJitter"     -> fullJitterFn(p.arg, status)
      [] p.kind = "equalJitter"    -> equalJitterFn(p.arg, status)
      [] p.kind = "exponentialBackoff" -> exponentialBackoffFn(p.arg, status)
      [] p.kind = "fullJitterBackoff"  -> fullJitterBackoffFn(p.arg, status)
      [] p.kind = "equalJitterBackoff" -> equalJitterBackoffFn(p.arg, status)
      [] p.kind = "decorrelatedJitterBackoff" ->
             decorrelatedJitterBackoffFn(p.arg, status)
      [] p.kind = "limitCumulativeDelay" ->
             limitCumulativeDelayFn(p.arg, call(p.sub[1], status, now), status)
      [] p.kind = "limitTimePoint" ->
             limitTimePointFn(p.arg, call(p.sub[1], status, now), status, now)
      [] p.kind = "limitRetriesByDelay" ->
             limitRetriesByDelayFn(p.arg, call(p.sub[1], status, now), status)
      [] p.kind = "capDelay" ->
             capDelayFn(p.arg, call(p.sub[1], status, now), status)
      [] p.kind = "combine" ->
             combineFn(call(p.sub[1], status, now), call(p.sub[2], status, now))

(***************************************************************************)
(* RetryPolicy::apply.  The set of results; each records the optional      *)
(* status returned and the number of evaluations of _policy made.          *)
(***************************************************************************)
ApplyResult(ostatus, calls, odelay) == [ostatus |-> ostatus, calls |-> calls, odelay |-> odelay]

\* std::optional<RetryStatus>{}
NoStatus == [has |-> FALSE, val |-> RetryStatus0]
\* std::optional<PreemptibleRetryStatus>{}
NoPStatus == [has |-> FALSE, val |-> PreemptibleRetryStatus0]

\* variant of apply: cumulative_delay is set to the delay, not increased by it
apply_NoAccumulate(p, status, now) ==
    {IF ~o.delay.has
     THEN ApplyResult(NoStatus, 1, o.delay)
     ELSE ApplyResult(Some([iteration_number |-> status.iteration_number + 1,
                            cumulative_delay |-> o.delay.val,
                            previous_delay   |-> Some(o.delay.val)]),
                      1, o.delay)
     : o \in call(p, status, now)}

apply(p, status, now) ==
    {IF ~o.delay.has
     THEN ApplyResult(NoStatus, 1, o.delay)
     ELSE ApplyResult(Some([iteration_number |-> status.iteration_number + 1,
                            cumulative_delay |-> status.cumulative_delay + o.delay.val,
                            previous_delay   |-> Some(o.delay.val)]),
                      1, o.delay)
     : o \in call(p, status, now)}

(***************************************************************************)
(* RetryPolicy::simulate, retry-policy.h:118-135.  simulateLoop is the     *)
(* for loop entered with loop variable i, local status st and vector xs;   *)
(* the result is the set of vectors the call can return.                   *)
(***************************************************************************)
\* variant of simulateLoop: the loop test is i <= n
RECURSIVE simulateLoop_Inclusive(_, _, _, _, _, _)
simulateLoop_Inclusive(p, i, n, st, xs, now) ==
    IF ~(i <= n)
    THEN {xs}
    ELSE UNION {IF ~new_status.ostatus.has
                THEN {xs}
                ELSE simulateLoop_Inclusive(p, i + 1, n, new_status.ostatus.val,
                                            Append(xs, new_status.ostatus.val), now)
                : new_status \in apply(p, st, now)}

RECURSIVE simulateLoop(_, _, _, _, _, _)
simulateLoop(p, i, n, st, xs, now) ==
    IF ~(i < n)
    THEN {xs}
    ELSE UNION {IF ~new_status.ostatus.has
                THEN {xs}
                ELSE simulateLoop(p, i + 1, n, new_status.ostatus.val,
                                  Append(xs, new_status.ostatus.val), now)
                : new_status \in apply(p, st, now)}

simulate(p, n, now) == simulateLoop(p, 0, n, RetryStatus0, <<>>, now)

(***************************************************************************)
(* PreemptibleRetry::simulate(n_before, n_after).  simulateAfterLoop is    *)
(* the second for loop and simulateBeforeLoop the first one followed by    *)
(* `status = {}` and the second; each is entered with loop variable i,     *)
(* local status st and vector xs.  `return xs` inside the first loop       *)
(* leaves the function.                                                    *)
(***************************************************************************)
RECURSIVE simulateAfterLoop(_, _, _, _, _, _)
simulateAfterLoop(after, i, n_after, st, xs, now) ==
    IF ~(i < n_after)
    THEN {xs}
    ELSE UNION {IF ~new_status.ostatus.has
                THEN {xs}
                ELSE simulateAfterLoop(after, i + 1, n_after, new_status.ostatus.val,
                         Append(xs, PreemptibleRetryStatus(new_status.ostatus.val, TRUE)),
                         now)
                : new_status \in apply(after, st, now)}

RECURSIVE simulateBeforeLoop(_, _, _, _, _, _, _, _)
simulateBeforeLoop(before, after, i, n_before, n_after, st, xs, now) ==
    IF ~(i < n_before)
    THEN simulateAfterLoop(after, 0, n_after, RetryStatus0, xs, now)
    ELSE UNION {IF ~new_status.ostatus.has
                THEN {xs}
                ELSE simulateBeforeLoop(before, after, i + 1, n_before, n_after,
                         new_status.ostatus.val,
                         Append(xs, PreemptibleRetryStatus(new_status.ostatus.val, FALSE)),
                         now)
                : new_status \in apply(before, st, now)}

simulatePreemptible(before, after, n_before, n_after, now) ==
    simulateBeforeLoop(before, after, 0, n_before, n_after, RetryStatus0, <<>>, now)

(***************************************************************************)
(* State.                                                                  *)
(***************************************************************************)
VARIABLES
    \* --- the objects
    policy,          \* the RetryPolicy driven by RetryPolicy::retry / simulate / apply
    policy_before_,  \* PreemptibleRetry::policy_before_
    policy_after_,   \* PreemptibleRetry::policy_after_
    caller,          \* the caller's shouldRetry: [always, failures]
    \* --- shared state of the usage contract
    cond,            \* bool condition
    cv_mutex,        \* owner of cv_m: "free", "retry" or "signal"
    notified,        \* a notify_all reached the retry thread blocked on cv
    \* --- the retry thread
    pc,              \* position of the retry thread
    status,          \* retry(): status
    result,          \* retry(): result of the last action(status); 0 before the first
    new_status,      \* retry(): new_status
    returned,        \* value returned by retry(); 0 while it runs
    status0,         \* applyAndPreemptibleDelay / applyAndDelay: parameter status0
    ostatus,         \* applyAnd...Delay: local ostatus / status
    remaining,       \* time left until the deadline of cv.wait_for
    \* --- the signalling thread
    spc,             \* position of the signalling thread
    sval,            \* the value it assigns to the condition
    signals,         \* number of assignments made
    \* --- observation of the run
    hist,            \* record of counters and snapshots, see Hist0
    \* --- evaluation of the pure operations
    now,             \* std::chrono::system_clock::now()
    in_status,       \* the status argument
    out              \* the last operation and its result

vars == <<policy, policy_before_, policy_after_, caller, cond, cv_mutex, notified,
          pc, status, result, new_status, returned, status0, ostatus, remaining,
          spc, sval, signals, hist, now, in_status, out>>

objVars    == <<policy, policy_before_, policy_after_, caller>>
sharedVars == <<cond, cv_mutex, notified>>
signalVars == <<spc, sval, signals>>
pureVars   == <<now, in_status, out>>

(***************************************************************************)
(* Observation record.  It is written by the actions and read only by the  *)
(* properties.                                                             *)
(***************************************************************************)
Hist0 ==
    [invocations   |-> 0,        \* calls of action
     actionArgs    |-> <<>>,     \* the status passed to each call of action
     trace         |-> <<>>,     \* "action", "shouldRetry", "apply" in program order
     adopted       |-> 0,        \* executions of status = *new_status
     beforeApplied |-> 0,        \* evaluations of policy_before_.apply
     afterApplied  |-> 0,        \* evaluations of policy_after_.applyAndDelay
     waits         |-> 0,        \* times the thread blocked on cv (counted up to MaxCount)
     sleeps        |-> 0,        \* executions of sleep_for
     branch        |-> "none",   \* branch of the last applyAndPreemptibleDelay
     callInput     |-> PreemptibleRetryStatus0,  \* status0 as passed to the last call
     afterInput    |-> NoStatus, \* status of the last evaluation of policy_after_
     afterPrev     |-> NoStatus, \* status produced by the evaluation before that one
     afterOutput   |-> NoStatus, \* status produced by the last evaluation of policy_after_
     firstAfterInput    |-> NoStatus,  \* status of the first evaluation of policy_after_
     beforeAtFirstAfter |-> 0,         \* beforeApplied at that moment
     condInitially |-> FALSE,    \* the condition when retry was called
     condSetFalse  |-> FALSE,    \* the signalling thread assigned false
     condAtCheck   |-> FALSE,    \* the condition at line 76 of the last call
     setDuringCall |-> FALSE,    \* the condition was assigned true during the last call
     waitEnded     |-> FALSE,    \* the last call returned from cv.wait_for
     condAtWaitEnd |-> FALSE,    \* the condition when cv.wait_for returned
     leftAtWaitEnd |-> 0,        \* time left to the deadline when cv.wait_for returned
     spurious      |-> 0,        \* wake-ups with the condition false before the deadline
                                 \* (counted up to MaxCount)
     lastWait      |-> "none",   \* how the last call waited: "none", "sleep" or "cv"
     stopped       |-> "no"]     \* why retry returned: "shouldRetry" or "policy"

\* the record of the last pure operation
Out0 ==
    [op      |-> "none",
     outcome |-> Outcome(Nullopt, 0, Nullopt),          \* result of operator()
     applied |-> ApplyResult(NoStatus, 0, Nullopt),     \* result of apply
     n       |-> 0,                                     \* argument of simulate
     n_after |-> 0,                                     \* second argument of PreemptibleRetry::simulate
     xs      |-> <<>>,                                  \* result of simulate
     hasPrev |-> FALSE,                                 \* simulate was called before
     prevN   |-> 0,                                     \* argument of the call before
     prevXs  |-> <<>>]                                  \* result of the call before

\* the caller's shouldRetry(status, result): the action's result is the number
\* of the invocation that produced it; the caller retries always, or while
\* the result is one of the first `failures` invocations
shouldRetry(st, res) == caller.always \/ res <= caller.failures

(***************************************************************************)
(* PreemptibleRetry::retry and applyAndPreemptibleDelay (the retry thread) *)
(***************************************************************************)
\* preemptible.h:122  auto result = action(status)
P_Action ==
    /\ pc = "action"
    /\ result' = hist.invocations + 1
    /\ hist' = [hist EXCEPT !.invocations = @ + 1,
                            !.actionArgs = Append(@, status),
                            !.trace = Append(@, "action")]
    /\ pc' = "shouldRetry"
    /\ UNCHANGED <<objVars, sharedVars, signalVars, pureVars,
                   status, new_status, returned, status0, ostatus, remaining>>

\* preemptible.h:124-128  shouldRetry, then the call of applyAndPreemptibleDelay
P_ShouldRetry ==
    /\ pc = "shouldRetry"
    /\ IF ~shouldRetry(status, result)
       THEN /\ pc' = "done"
            /\ returned' = result
            /\ hist' = [hist EXCEPT !.trace = Append(@, "shouldRetry"),
                                    !.stopped = "shouldRetry"]
            /\ UNCHANGED status0
       ELSE /\ status.iteration_number < MaxIter
            /\ pc' = "apd_lock"
            /\ status0' = status
            /\ hist' = [hist EXCEPT !.trace = Append(@, "shouldRetry"),
                                    !.callInput = status,
                                    !.setDuringCall = FALSE,
                                    !.waitEnded = FALSE,
                                    !.lastWait = "none"]
            /\ UNCHANGED returned
    /\ UNCHANGED <<objVars, sharedVars, signalVars, pureVars,
                   status, result, new_status, ostatus, remaining>>

\* preemptible.h:75  std::unique_lock<std::mutex> lock(cv_mutex)
P_Lock ==
    /\ pc = "apd_lock"
    /\ cv_mutex = "free"
    /\ cv_mutex' = "retry"
    /\ pc' = "apd_cond"
    /\ UNCHANGED <<objVars, cond, notified, signalVars, pureVars, hist,
                   status, result, new_status, returned, status0, ostatus, remaining>>

\* variant of P_CondTrue: the status is never reset
P_CondTrue_NoReset ==
    /\ pc = "apd_cond"
    /\ cond
    /\ cv_mutex' = "free"
    /\ hist' = [hist EXCEPT !.branch = "after", !.condAtCheck = TRUE]
    /\ pc' = "after_apply"
    /\ UNCHANGED <<objVars, cond, notified, signalVars, pureVars,
                   status, result, new_status, returned, status0, ostatus, remaining>>

\* variant of P_CondTrue: the lock is not released before the after policy
P_CondTrue_KeepLock ==
    /\ pc = "apd_cond"
    /\ cond
    /\ status0' = IF status0.condition_signalled THEN PreemptibleRetryStatus0 ELSE status0
    /\ hist' = [hist EXCEPT !.branch = "after", !.condAtCheck = TRUE]
    /\ pc' = "after_apply"
    /\ UNCHANGED <<objVars, sharedVars, signalVars, pureVars,
                   status, result, new_status, returned, ostatus, remaining>>

\* variant of P_CondTrue: the status is reset at every call
P_CondTrue_AlwaysReset ==
    /\ pc = "apd_cond"
    /\ cond
    /\ cv_mutex' = "free"
    /\ status0' = PreemptibleRetryStatus0
    /\ hist' = [hist EXCEPT !.branch = "after", !.condAtCheck = TRUE]
    /\ pc' = "after_apply"
    /\ UNCHANGED <<objVars, cond, notified, signalVars, pureVars,
                   status, result, new_status, returned, ostatus, remaining>>

\* preemptible.h:76-86  cond() is true: unlock, reset status0 if it was signalled
P_CondTrue ==
    /\ pc = "apd_cond"
    /\ cond
    /\ cv_mutex' = "free"
    /\ status0' = IF status0.condition_signalled THEN PreemptibleRetryStatus0 ELSE status0
    /\ hist' = [hist EXCEPT !.branch = "after", !.condAtCheck = TRUE]
    /\ pc' = "after_apply"
    /\ UNCHANGED <<objVars, cond, notified, signalVars, pureVars,
                   status, result, new_status, returned, ostatus, remaining>>

\* preemptible.h:87 with retry-policy.h:67-71  policy_after_.applyAndDelay: apply
P_AfterApply ==
    /\ pc = "after_apply"
    /\ \E r \in apply(policy_after_, AsRetryStatus(status0), now) :
          /\ ostatus' = r.ostatus
          /\ hist' = [hist EXCEPT
                        !.afterApplied = @ + 1,
                        !.trace = Append(@, "apply"),
                        !.afterPrev = hist.afterOutput,
                        !.afterInput = Some(AsRetryStatus(status0)),
                        !.afterOutput = r.ostatus,
                        !.firstAfterInput =
                            IF hist.afterApplied = 0 THEN Some(AsRetryStatus(status0)) ELSE @,
                        !.beforeAtFirstAfter =
                            IF hist.afterApplied = 0 THEN hist.beforeApplied ELSE @]
          /\ IF r.ostatus.has
             THEN /\ pc' = "after_sleep"
                  /\ UNCHANGED new_status
             ELSE \* preemptible.h:88-90  return std::nullopt
                  /\ pc' = "check_new"
                  /\ new_status' = NoPStatus
    /\ UNCHANGED <<objVars, sharedVars, signalVars, pureVars,
                   status, result, returned, status0, remaining>>

\* variant of P_AfterSleep: the status is wrapped with condition_signalled = true
P_AfterSleep_Signalled ==
    /\ pc = "after_sleep"
    /\ hist' = [hist EXCEPT !.sleeps = @ + (IF ostatus.val.previous_delay.has THEN 1 ELSE 0),
                            !.lastWait = IF ostatus.val.previous_delay.has THEN "sleep" ELSE @]
    /\ new_status' = Some(PreemptibleRetryStatus(ostatus.val, TRUE))
    /\ pc' = "check_new"
    /\ UNCHANGED <<objVars, sharedVars, signalVars, pureVars,
                   status, result, returned, status0, ostatus, remaining>>

\* retry-policy.h:75-79 and preemptible.h:88-90  sleep_for, then return the
\* status wrapped with condition_signalled = false
P_AfterSleep ==
    /\ pc = "after_sleep"
    /\ hist' = [hist EXCEPT !.sleeps = @ + (IF ostatus.val.previous_delay.has THEN 1 ELSE 0),
                            !.lastWait = IF ostatus.val.previous_delay.has THEN "sleep" ELSE @]
    /\ new_status' = Some(PreemptibleRetryStatus(ostatus.val, FALSE))
    /\ pc' = "check_new"
    /\ UNCHANGED <<objVars, sharedVars, signalVars, pureVars,
                   status, result, returned, status0, ostatus, remaining>>

\* preemptible.h:76, 93-101  cond() is false: policy_before_.apply under the lock
\* variant of P_BeforeApply: the branch is taken whatever cond() returned
P_BeforeApply_AnyCond ==
    /\ pc = "apd_cond"
    /\ \E r \in apply(policy_before_, AsRetryStatus(status0), now) :
          /\ ostatus' = r.ostatus
          /\ hist' = [hist EXCEPT !.branch = "before", !.condAtCheck = FALSE,
                                  !.beforeApplied = @ + 1,
                                  !.trace = Append(@, "apply")]
          /\ IF ~r.ostatus.has
             THEN \* return std::nullopt; the lock is released by its destructor
                  /\ new_status' = NoPStatus
                  /\ cv_mutex' = "free"
                  /\ pc' = "check_new"
                  /\ UNCHANGED remaining
             ELSE IF r.ostatus.val.previous_delay.has
             THEN /\ remaining' = r.ostatus.val.previous_delay.val
                  /\ pc' = "wait_pred"
                  /\ UNCHANGED <<new_status, cv_mutex>>
             ELSE \* preemptible.h:108
                  /\ new_status' = Some(PreemptibleRetryStatus(r.ostatus.val, FALSE))
                  /\ cv_mutex' = "free"
                  /\ pc' = "check_new"
                  /\ UNCHANGED remaining
    /\ UNCHANGED <<objVars, cond, notified, signalVars, pureVars,
                   status, result, returned, status0>>

P_BeforeApply ==
    /\ pc = "apd_cond"
    /\ ~cond
    /\ \E r \in apply(policy_before_, AsRetryStatus(status0), now) :
          /\ ostatus' = r.ostatus
          /\ hist' = [hist EXCEPT !.branch = "before", !.condAtCheck = FALSE,
                                  !.beforeApplied = @ + 1,
                                  !.trace = Append(@, "apply")]
          /\ IF ~r.ostatus.has
             THEN \* return std::nullopt; the lock is released by its destructor
                  /\ new_status' = NoPStatus
                  /\ cv_mutex' = "free"
                  /\ pc' = "check_new"
                  /\ UNCHANGED remaining
             ELSE IF r.ostatus.val.previous_delay.has
             THEN /\ remaining' = r.ostatus.val.previous_delay.val
                  /\ pc' = "wait_pred"
                  /\ UNCHANGED <<new_status, cv_mutex>>
             ELSE \* preemptible.h:108
                  /\ new_status' = Some(PreemptibleRetryStatus(r.ostatus.val, FALSE))
                  /\ cv_mutex' = "free"
                  /\ pc' = "check_new"
                  /\ UNCHANGED remaining
    /\ UNCHANGED <<objVars, cond, notified, signalVars, pureVars,
                   status, result, returned, status0>>

(***************************************************************************)
(* cv.wait_for(lock, *status.previous_delay, cond), preemptible.h:102:     *)
(*     while (!pred()) if (wait_until(lock, deadline) == timeout)          *)
(*                         return pred();                                  *)
(*     return true;                                                        *)
(* wait_until releases the mutex and blocks atomically, wakes on a         *)
(* notification, spuriously or at the deadline, and re-acquires the mutex  *)
(* before it returns.                                                      *)
(***************************************************************************)
\* the result of wait_for, wrapped by preemptible.h:104 / 108; the lock is
\* released by its destructor at the return
WaitReturn(signalled) ==
    /\ new_status' = Some(PreemptibleRetryStatus(ostatus.val, signalled))
    /\ hist' = [hist EXCEPT !.waitEnded = TRUE,
                            !.condAtWaitEnd = cond,
                            !.leftAtWaitEnd = remaining]
    /\ cv_mutex' = "free"
    /\ pc' = "check_new"

\* the loop test pred(), with the mutex held
P_WaitPred ==
    /\ pc = "wait_pred"
    /\ IF cond
       THEN /\ WaitReturn(TRUE)
            /\ UNCHANGED notified
       ELSE /\ cv_mutex' = "free"
            /\ notified' = FALSE
            /\ pc' = "wait_block"
            /\ hist' = [hist EXCEPT !.waits = Min(@ + 1, MaxCount), !.lastWait = "cv"]
            /\ UNCHANGED new_status
    /\ UNCHANGED <<objVars, cond, signalVars, pureVars,
                   status, result, returned, status0, ostatus, remaining>>

\* the blocked thread wakes: notified, at the deadline, or spuriously
P_Wake ==
    /\ pc = "wait_block"
    /\ pc' = "wait_relock"
    /\ hist' = [hist EXCEPT !.spurious =
                    Min(@ + (IF ~notified /\ remaining > 0 /\ ~cond THEN 1 ELSE 0), MaxCount)]
    /\ UNCHANGED <<objVars, sharedVars, signalVars, pureVars,
                   status, result, new_status, returned, status0, ostatus, remaining>>

\* wait_until re-acquires the mutex and reports timeout iff the deadline passed
P_Relock ==
    /\ pc = "wait_relock"
    /\ cv_mutex = "free"
    /\ cv_mutex' = "retry"
    /\ pc' = IF remaining = 0 THEN "wait_timeout" ELSE "wait_pred"
    /\ UNCHANGED <<objVars, cond, notified, signalVars, pureVars, hist,
                   status, result, new_status, returned, status0, ostatus, remaining>>

\* variant of P_WaitTimeout: a timeout returns false without evaluating pred()
P_WaitTimeout_NoRecheck ==
    /\ pc = "wait_timeout"
    /\ WaitReturn(FALSE)
    /\ UNCHANGED <<objVars, cond, notified, signalVars, pureVars,
                   status, result, returned, status0, ostatus, remaining>>

\* cv_status::timeout: return pred()
P_WaitTimeout ==
    /\ pc = "wait_timeout"
    /\ WaitReturn(cond)
    /\ UNCHANGED <<objVars, cond, notified, signalVars, pureVars,
                   status, result, returned, status0, ostatus, remaining>>

\* time passes while the retry thread is inside cv.wait_for
Tick ==
    /\ pc \in {"wait_pred", "wait_block", "wait_relock"}
    /\ remaining > 0
    /\ remaining' = remaining - 1
    /\ UNCHANGED <<objVars, sharedVars, signalVars, pureVars, hist,
                   pc, status, result, new_status, returned, status0, ostatus>>

\* preemptible.h:130-134  stop returns the last result, else adopt the status
P_CheckNew ==
    /\ pc = "check_new"
    /\ IF ~new_status.has
       THEN /\ pc' = "done"
            /\ returned' = result
            /\ hist' = [hist EXCEPT !.stopped = "policy"]
            /\ UNCHANGED status
       ELSE /\ status' = new_status.val
            /\ hist' = [hist EXCEPT !.adopted = @ + 1]
            /\ pc' = "action"
            /\ UNCHANGED returned
    /\ UNCHANGED <<objVars, sharedVars, signalVars, pureVars,
                   result, new_status, status0, ostatus, remaining>>

(***************************************************************************)
(* The signalling thread, preemptible.h:46-54: the condition is modified   *)
(* only while holding the mutex, then all waiters are notified.            *)
(***************************************************************************)
\* positions of the retry thread inside applyAndPreemptibleDelay
InCall == {"apd_lock", "apd_cond", "after_apply", "after_sleep",
           "wait_pred", "wait_block", "wait_relock", "wait_timeout"}

\* std::lock_guard<std::mutex> lock(cv_m)
S_Lock ==
    /\ spc = "idle"
    /\ signals < MaxSignals
    /\ cv_mutex = "free"
    /\ cv_mutex' = "signal"
    /\ \E v \in BOOLEAN : sval' = v
    /\ spc' = "locked"
    /\ UNCHANGED <<objVars, cond, notified, pureVars, hist, signals,
                   pc, status, result, new_status, returned, status0, ostatus, remaining>>

\* condition = ...
S_Set ==
    /\ spc = "locked"
    /\ cond' = sval
    /\ hist' = [hist EXCEPT !.condSetFalse = @ \/ ~sval,
                            !.setDuringCall =
                                IF sval THEN pc \in InCall ELSE FALSE]
    /\ spc' = "set"
    /\ UNCHANGED <<objVars, cv_mutex, notified, pureVars, sval, signals,
                   pc, status, result, new_status, returned, status0, ostatus, remaining>>

\* end of the lock_guard's scope
S_Unlock ==
    /\ spc = "set"
    /\ cv_mutex' = "free"
    /\ spc' = "notify"
    /\ UNCHANGED <<objVars, cond, notified, pureVars, hist, sval, signals,
                   pc, status, result, new_status, returned, status0, ostatus, remaining>>

\* cv.notify_all(): reaches the retry thread only if it is blocked on cv
S_Notify ==
    /\ spc = "notify"
    /\ notified' = (notified \/ pc = "wait_block")
    /\ signals' = signals + 1
    /\ spc' = "idle"
    /\ UNCHANGED <<objVars, cond, cv_mutex, pureVars, hist, sval,
                   pc, status, result, new_status, returned, status0, ostatus, remaining>>

(***************************************************************************)
(* PreemptibleRetry(policy_before, policy_after).retry(cv, cv_m, cond,     *)
(* shouldRetry, action) running against the signalling thread.             *)
(***************************************************************************)
BeforePolicies == {limitRetries(2), constantDelay(1), fullJitter(1)}
AfterPolicies  == {limitRetries(1), constantDelay(2)}
Callers == {[always |-> TRUE, failures |-> 0], [always |-> FALSE, failures |-> 2]}

InitPreemptible ==
    /\ policy = neverRetry
    /\ policy_before_ \in BeforePolicies
    /\ policy_after_ \in AfterPolicies
    /\ caller \in Callers
    /\ cond \in BOOLEAN
    /\ cv_mutex = "free"
    /\ notified = FALSE
    /\ pc = "action"
    /\ status = PreemptibleRetryStatus0
    /\ result = 0
    /\ new_status = NoPStatus
    /\ returned = 0
    /\ status0 = PreemptibleRetryStatus0
    /\ ostatus = NoStatus
    /\ remaining = 0
    /\ spc = "idle"
    /\ sval = FALSE
    /\ signals = 0
    /\ hist = [Hist0 EXCEPT !.condInitially = cond]
    /\ now = 0
    /\ in_status = RetryStatus0
    /\ out = Out0

NextPreemptible ==
    \/ P_Action \/ P_ShouldRetry \/ P_Lock \/ P_CondTrue \/ P_AfterApply
    \/ P_AfterSleep \/ P_BeforeApply \/ P_WaitPred \/ P_Wake \/ P_Relock
    \/ P_WaitTimeout \/ Tick \/ P_CheckNew
    \/ S_Lock \/ S_Set \/ S_Unlock \/ S_Notify

SpecPreemptible == InitPreemptible /\ [][NextPreemptible]_vars

\* the steps of the thread that called retry, and of the signalling thread
\* once it holds the mutex
RetryThread ==
    \/ P_Action \/ P_ShouldRetry \/ P_Lock \/ P_CondTrue \/ P_AfterApply
    \/ P_AfterSleep \/ P_BeforeApply \/ P_WaitPred \/ P_Wake \/ P_Relock
    \/ P_WaitTimeout \/ P_CheckNew
SignalThread == S_Set \/ S_Unlock \/ S_Notify

\* both threads are scheduled, and time passes while the retry thread is
\* inside cv.wait_for
InitFairPreemptible ==
    InitPreemptible /\ policy_before_.kind # "fullJitter" /\ caller.always

FairSpecPreemptible ==
    InitFairPreemptible /\ [][NextPreemptible]_vars
      /\ WF_vars(RetryThread) /\ WF_vars(SignalThread) /\ WF_vars(Tick)

(***************************************************************************)
(* Properties of PreemptibleRetry, checked under SpecPreemptible.          *)
(***************************************************************************)
\* the last call of applyAndPreemptibleDelay has returned to retry
Returned(b) == pc = "check_new" /\ hist.branch = b

\* C1: the first evaluation of the after policy that follows one or more
\* applications of the before policy is made on a fresh status
\* (iteration_number 0, cumulative_delay 0, no previous_delay), whenever the
\* condition became true.
C1_TransitionResets ==
    (hist.firstAfterInput.has /\ hist.beforeAtFirstAfter >= 1)
        => hist.firstAfterInput.val = RetryStatus0

\* C2: a call that found the condition false and waited returns
\* condition_signalled = true when the condition was set to true during the
\* call; it returns false only if the condition is false when the wait ends,
\* and then only after the whole delay has elapsed (spurious wake-ups do not
\* end the wait); a thread blocked on cv while the condition is true always
\* has a notification pending or coming.
C2_NoMissedSignal ==
    /\ (Returned("before") /\ hist.waitEnded) =>
          /\ new_status.has
          /\ new_status.val.condition_signalled = hist.condAtWaitEnd
          /\ (hist.setDuringCall => new_status.val.condition_signalled)
          /\ (~new_status.val.condition_signalled => hist.leftAtWaitEnd = 0)
    /\ (pc = "wait_block" /\ cond) => (notified \/ spc \in {"set", "notify"})

\* the condition was set during the wait and the call returned signalled
\* before its deadline, after a spurious wake-up
C2_Witness ==
    /\ Returned("before") /\ hist.waitEnded /\ hist.setDuringCall
    /\ new_status.val.condition_signalled
    /\ hist.leftAtWaitEnd > 0
    /\ hist.spurious >= 1

\* C3: a before wait that ends with the condition true returns
\* condition_signalled = true with the before policy's updated counters; a
\* call that receives a signalled status while the condition is true applies
\* the after policy to a fresh status, sleeps, and returns
\* condition_signalled = false; a call that receives an unsignalled status
\* applies the after policy to that status's counters (no further reset).
C3_ResetOnceAfterSignal ==
    /\ (Returned("before") /\ hist.waitEnded /\ hist.condAtWaitEnd) =>
          /\ new_status.has
          /\ new_status.val.condition_signalled
          /\ \E r \in apply(policy_before_, AsRetryStatus(hist.callInput), now) :
                r.ostatus = Some(AsRetryStatus(new_status.val))
    /\ (hist.branch = "after" /\ pc \in {"after_sleep", "check_new"}) =>
          hist.afterInput = IF hist.callInput.condition_signalled
                            THEN Some(RetryStatus0)
                            ELSE Some(AsRetryStatus(hist.callInput))
    /\ (Returned("after") /\ new_status.has) =>
          /\ ~new_status.val.condition_signalled
          /\ hist.lastWait = "sleep"
          /\ Some(AsRetryStatus(new_status.val)) = hist.afterOutput

\* the after policy was applied to a fresh status in place of a signalled
\* status that carried counters of the before policy
C3_Witness ==
    /\ Returned("after") /\ new_status.has
    /\ hist.callInput.condition_signalled
    /\ hist.callInput.iteration_number >= 1

\* C4: while the condition has been true from the start, the before policy
\* is never evaluated and the thread never waits on cv; the after policy is
\* first evaluated on a fresh status and then on the status it produced.
C4_TrueFromStart ==
    (hist.condInitially /\ ~hist.condSetFalse) =>
        /\ hist.beforeApplied = 0
        /\ hist.waits = 0
        /\ (hist.firstAfterInput.has => hist.firstAfterInput.val = RetryStatus0)
        /\ (hist.afterApplied >= 2 => hist.afterInput = hist.afterPrev)
        /\ hist.lastWait # "cv"

\* the after policy was evaluated a third time with the condition never false
C4_Witness ==
    /\ hist.condInitially /\ ~hist.condSetFalse
    /\ hist.afterApplied >= 3
    /\ hist.afterInput.val.iteration_number = 2

\* positions of the retry thread inside cv.wait_for
InWait == {"wait_pred", "wait_block", "wait_relock", "wait_timeout"}

\* since the first evaluation of policy_after_ the before policy was not
\* applied, and the thread is not inside cv.wait_for
NoBeforeSinceAfter ==
    /\ hist.beforeApplied = hist.beforeAtFirstAfter
    /\ pc \notin InWait

\* C18 as stated: once a call of applyAndPreemptibleDelay has applied the
\* after policy, no later call of the loop applies the before policy or
\* waits on the condition variable, whatever changes the caller makes to
\* the condition.
C18_AfterTerminal ==
    hist.afterApplied >= 1 => NoBeforeSinceAfter

\* C18 amended: once a call of applyAndPreemptibleDelay has applied the
\* after policy, no later call of the loop applies the before policy or
\* waits on the condition variable, as long as the caller has never set
\* the condition to false.
C18_AfterTerminalWhileTrue ==
    hist.afterApplied >= 1 /\ ~hist.condSetFalse => NoBeforeSinceAfter

\* the after policy was applied in two calls that followed a before phase,
\* with the condition never set to false
C18_Witness ==
    /\ ~hist.condSetFalse
    /\ hist.beforeApplied >= 1
    /\ hist.afterApplied >= 2
    /\ pc = "action"

\* before = limitRetries(a), after = limitRetries(b), shouldRetry always true
LimitRetriesOnly ==
    /\ policy_before_.kind = "limitRetries"
    /\ policy_after_.kind = "limitRetries"
    /\ caller.always

\* C19: with before = limitRetries(a), after = limitRetries(b), an always-true
\* shouldRetry and a condition that is never set back to false, retry
\* invokes the action at most a + b + 1 times; when the before policy stops
\* with the condition still false retry returns the result of the last
\* invocation without the after policy having been evaluated; and retry
\* returns under every interleaving with the signalling thread.
C19_LimitRetriesTerminate ==
    /\ [](LimitRetriesOnly /\ ~hist.condSetFalse =>
            /\ hist.invocations <= policy_before_.arg + policy_after_.arg + 1
            /\ pc = "done" /\ hist.branch = "before" =>
                  /\ hist.stopped = "policy"
                  /\ hist.afterApplied = 0
                  /\ hist.invocations = policy_before_.arg + 1
                  /\ returned = hist.invocations)
    /\ (LimitRetriesOnly => <>(hist.condSetFalse \/ pc = "done"))

\* retry returned after a + b + 1 invocations: the before phase used all its
\* retries, the last wait was ended by the condition, and the after phase
\* used all of its own
C19_Witness ==
    /\ LimitRetriesOnly
    /\ ~hist.condSetFalse
    /\ pc = "done"
    /\ hist.invocations = policy_before_.arg + policy_after_.arg + 1
    /\ hist.beforeApplied = policy_before_.arg

\* positions at which the retry thread evaluates cond() or is about to
\* evaluate the before policy
HoldsMutex == {"apd_cond", "wait_pred", "wait_timeout"}

\* C20: the retry thread holds the mutex only while it checks the condition
\* and evaluates the before policy: not while the action or shouldRetry
\* runs, not while the after policy is applied and slept for, not while
\* blocked in the condition-variable wait, and not after
\* applyAndPreemptibleDelay has returned, stop included.  A held mutex is
\* always released again, so the signalling thread is never blocked for
\* ever, and a thread waiting for the mutex always gets past the wait.
C20_MutexHeldBriefly ==
    /\ [](cv_mutex = "retry" => pc \in HoldsMutex)
    /\ [](pc \in {"action", "shouldRetry", "apd_lock", "after_apply", "after_sleep",
                  "wait_block", "wait_relock", "check_new", "done"}
             => cv_mutex # "retry")
    /\ ((cv_mutex # "free") ~> (cv_mutex = "free"))
    /\ ((pc \in {"apd_lock", "wait_relock"}) ~> (pc \notin {"apd_lock", "wait_relock"}))

\* the signalling thread holds the mutex while the retry thread is blocked
\* in the condition-variable wait
C20_Witness ==
    /\ cv_mutex = "signal"
    /\ spc = "locked"
    /\ pc = "wait_block"

(***************************************************************************)
(* RetryPolicy::retry and applyAndDelay, retry-policy.h:65-116             *)
(***************************************************************************)
\* retry-policy.h:102  auto result = action(status)
R_Action ==
    /\ pc = "action"
    /\ result' = hist.invocations + 1
    /\ hist' = [hist EXCEPT !.invocations = @ + 1,
                            !.actionArgs = Append(@, status),
                            !.trace = Append(@, "action")]
    /\ pc' = "shouldRetry"
    /\ UNCHANGED <<objVars, sharedVars, signalVars, pureVars,
                   status, new_status, returned, status0, ostatus, remaining>>

\* retry-policy.h:104-108  shouldRetry, then the call of applyAndDelay
R_ShouldRetry ==
    /\ pc = "shouldRetry"
    /\ IF ~shouldRetry(status, result)
       THEN /\ pc' = "done"
            /\ returned' = result
            /\ hist' = [hist EXCEPT !.trace = Append(@, "shouldRetry"),
                                    !.stopped = "shouldRetry"]
            /\ UNCHANGED status0
       ELSE /\ status.iteration_number < MaxIter
            /\ pc' = "apply"
            /\ status0' = status
            /\ hist' = [hist EXCEPT !.trace = Append(@, "shouldRetry")]
            /\ UNCHANGED returned
    /\ UNCHANGED <<objVars, sharedVars, signalVars, pureVars,
                   status, result, new_status, ostatus, remaining>>

\* retry-policy.h:67-73  auto ostatus = apply(status0); stop returns nullopt
R_Apply ==
    /\ pc = "apply"
    /\ \E r \in apply(policy, status0, now) :
          /\ ostatus' = r.ostatus
          /\ hist' = [hist EXCEPT !.trace = Append(@, "apply")]
          /\ IF r.ostatus.has
             THEN /\ pc' = "sleep"
                  /\ UNCHANGED new_status
             ELSE /\ pc' = "check_new"
                  /\ new_status' = NoStatus
    /\ UNCHANGED <<objVars, sharedVars, signalVars, pureVars,
                   status, result, returned, status0, remaining>>

\* retry-policy.h:75-79  sleep_for(*status.previous_delay); return status
R_Sleep ==
    /\ pc = "sleep"
    /\ hist' = [hist EXCEPT !.sleeps = @ + (IF ostatus.val.previous_delay.has THEN 1 ELSE 0),
                            !.lastWait = IF ostatus.val.previous_delay.has THEN "sleep" ELSE @]
    /\ new_status' = ostatus
    /\ pc' = "check_new"
    /\ UNCHANGED <<objVars, sharedVars, signalVars, pureVars,
                   status, result, returned, status0, ostatus, remaining>>

\* variant of R_CheckNew: the new status is not adopted
R_CheckNew_NoAdopt ==
    /\ pc = "check_new"
    /\ IF ~new_status.has
       THEN /\ pc' = "done"
            /\ returned' = result
            /\ hist' = [hist EXCEPT !.stopped = "policy"]
       ELSE /\ hist' = [hist EXCEPT !.adopted = @ + 1]
            /\ pc' = "action"
            /\ UNCHANGED returned
    /\ UNCHANGED <<objVars, sharedVars, signalVars, pureVars,
                   status, result, new_status, status0, ostatus, remaining>>

\* retry-policy.h:110-114  stop returns the last result, else adopt the status
R_CheckNew ==
    /\ pc = "check_new"
    /\ IF ~new_status.has
       THEN /\ pc' = "done"
            /\ returned' = result
            /\ hist' = [hist EXCEPT !.stopped = "policy"]
            /\ UNCHANGED status
       ELSE /\ status' = new_status.val
            /\ hist' = [hist EXCEPT !.adopted = @ + 1]
            /\ pc' = "action"
            /\ UNCHANGED returned
    /\ UNCHANGED <<objVars, sharedVars, signalVars, pureVars,
                   result, new_status, status0, ostatus, remaining>>

RetryPolicies ==
    {neverRetry, limitRetries(0), limitRetries(1), limitRetries(2),
     constantDelay(1), fullJitter(2),
     limitCumulativeDelay(3, constantDelay(1)),
     limitRetriesByDelay(2, fullJitter(1)),
     capDelay(1, constantDelay(2)),
     combine(constantDelay(1), limitRetries(1))}
RetryCallers ==
    {[always |-> TRUE, failures |-> 0]}
        \cup {[always |-> FALSE, failures |-> k] : k \in 0..2}

InitRetry ==
    /\ policy \in RetryPolicies
    /\ policy_before_ = neverRetry
    /\ policy_after_ = neverRetry
    /\ caller \in RetryCallers
    /\ cond = FALSE
    /\ cv_mutex = "free"
    /\ notified = FALSE
    /\ pc = "action"
    /\ status = RetryStatus0
    /\ result = 0
    /\ new_status = NoStatus
    /\ returned = 0
    /\ status0 = RetryStatus0
    /\ ostatus = NoStatus
    /\ remaining = 0
    /\ spc = "idle"
    /\ sval = FALSE
    /\ signals = 0
    /\ hist = Hist0
    /\ now = 0
    /\ in_status = RetryStatus0
    /\ out = Out0

NextRetry == R_Action \/ R_ShouldRetry \/ R_Apply \/ R_Sleep \/ R_CheckNew

SpecRetry == InitRetry /\ [][NextRetry]_vars

\* the loop runs on the caller's thread and every step of it completes
FairSpecRetry == SpecRetry /\ WF_vars(NextRetry)

(***************************************************************************)
(* Properties of RetryPolicy::retry, checked under SpecRetry and           *)
(* FairSpecRetry.                                                          *)
(***************************************************************************)
ProgramOrder == <<"action", "shouldRetry", "apply">>

\* number of "apply" entries of a trace that follows ProgramOrder
Applies(tr) == Len(tr) \div 3

\* C5: retry starts from a fresh status and alternates action, shouldRetry,
\* applyAndDelay; it returns the result of the most recent invocation of the
\* action, when shouldRetry is false (the policy is then not evaluated and
\* nothing is slept) or when the policy stops; the action is invoked once
\* more than statuses are adopted and its k-th invocation receives the
\* status with iteration_number = k - 1.
C5_RetryLoop ==
    /\ \A i \in 1..Len(hist.trace) : hist.trace[i] = ProgramOrder[((i - 1) % 3) + 1]
    /\ \A k \in 1..Len(hist.actionArgs) : hist.actionArgs[k].iteration_number = k - 1
    /\ (hist.invocations >= 1 => hist.actionArgs[1] = RetryStatus0)
    /\ (pc = "done" =>
          /\ returned = hist.invocations
          /\ returned = result
          /\ hist.invocations = hist.adopted + 1
          /\ hist.sleeps = hist.adopted
          /\ (hist.stopped = "shouldRetry" =>
                /\ ~shouldRetry(status, result)
                /\ hist.trace[Len(hist.trace)] = "shouldRetry"
                /\ Applies(hist.trace) = hist.adopted)
          /\ (hist.stopped = "policy" =>
                /\ shouldRetry(status, result)
                /\ hist.trace[Len(hist.trace)] = "apply"
                /\ Applies(hist.trace) = hist.adopted + 1
                /\ \E r \in apply(policy, status, now) : ~r.ostatus.has))

\* retry returned on a false shouldRetry after two retries
C5_Witness ==
    /\ pc = "done" /\ hist.stopped = "shouldRetry"
    /\ hist.invocations = 3
    /\ status.iteration_number = 2

\* the statuses reachable by one apply of p from a status of S
Successors(p, S) ==
    {r.ostatus.val : r \in {q \in UNION {apply(p, st, 0) : st \in S} : q.ostatus.has}}

\* every sequence of applications of p from a status of S meets a stop
\* within k applications
RECURSIVE StopsWithin(_, _, _)
StopsWithin(p, S, k) ==
    IF S = {} THEN TRUE
    ELSE IF k = 0 THEN FALSE
    ELSE StopsWithin(p, Successors(p, S), k - 1)

\* no sequence of k applications of p from a status of S meets a stop
RECURSIVE NeverStopsWithin(_, _, _)
NeverStopsWithin(p, S, k) ==
    IF k = 0 THEN TRUE
    ELSE /\ \A st \in S : \A r \in apply(p, st, 0) : r.ostatus.has
         /\ NeverStopsWithin(p, Successors(p, S), k - 1)

\* C6: retry returns whenever the policy eventually stops or shouldRetry
\* eventually is false; with limitRetries(n) and an always-true shouldRetry
\* it returns after exactly n + 1 invocations of the action; with a policy
\* that never stops and an always-true shouldRetry it does not return.
C6_Termination ==
    /\ (StopsWithin(policy, {RetryStatus0}, MaxIter) \/ ~caller.always) ~> (pc = "done")
    /\ []((pc = "done" /\ policy.kind = "limitRetries" /\ caller.always)
            => hist.invocations = policy.arg + 1)
    /\ []((caller.always /\ NeverStopsWithin(policy, {RetryStatus0}, MaxIter))
            => pc # "done")

\* limitRetries(2) with an always-true shouldRetry has returned
C6_Witness ==
    /\ pc = "done" /\ caller.always
    /\ policy = limitRetries(2)
    /\ hist.invocations = 3

(***************************************************************************)
(* The pure operations of RetryPolicy (operator(), apply, simulate)        *)
(* evaluated on a policy, a status and a clock value.                      *)
(***************************************************************************)
\* policy(in_status)
DoCall ==
    /\ \E o \in call(policy, in_status, now) :
          out' = [Out0 EXCEPT !.op = "call", !.outcome = o]
    /\ UNCHANGED <<objVars, sharedVars, signalVars, hist, now, in_status,
                   pc, status, result, new_status, returned, status0, ostatus, remaining>>

\* policy.apply(in_status)
DoApply ==
    /\ \E r \in apply(policy, in_status, now) :
          out' = [Out0 EXCEPT !.op = "apply", !.applied = r]
    /\ UNCHANGED <<objVars, sharedVars, signalVars, hist, now, in_status,
                   pc, status, result, new_status, returned, status0, ostatus, remaining>>

\* policy.simulate(n); a call and the call that follows it are observed
DoSimulate ==
    /\ ~out.hasPrev
    /\ \E n \in 0..MaxSimN : \E xs \in simulate(policy, n, now) :
          out' = [Out0 EXCEPT !.op = "simulate", !.n = n, !.xs = xs,
                             !.hasPrev = (out.op = "simulate"),
                             !.prevN = out.n, !.prevXs = out.xs]
    /\ UNCHANGED <<objVars, sharedVars, signalVars, hist, now, in_status,
                   pc, status, result, new_status, returned, status0, ostatus, remaining>>

\* the system clock advances between two operations
ClockTick ==
    /\ now < MaxNow
    /\ now' = now + 1
    /\ out' = Out0
    /\ UNCHANGED <<objVars, sharedVars, signalVars, hist, in_status,
                   pc, status, result, new_status, returned, status0, ostatus, remaining>>

Leaves == {neverRetry, limitRetries(0), limitRetries(2), constantDelay(1),
           constantDelay(2), fullJitter(1)}
Wrapped == {constantDelay(2), fullJitter(1), limitRetries(1)}
Combined == {constantDelay(1), constantDelay(2), limitRetries(0), limitRetries(2),
             fullJitter(1)}
PurePolicies ==
    Leaves
      \cup {constantDelay(100), limitCumulativeDelay(250, constantDelay(100))}
      \cup {capDelay(1, w) : w \in Wrapped}
      \cup {limitRetriesByDelay(1, w) : w \in Wrapped}
      \cup {limitCumulativeDelay(3, w) : w \in Wrapped}
      \cup {limitTimePoint(3, w) : w \in Wrapped}
      \cup {combine(x, y) : x \in Combined, y \in Combined}

\* statuses that sequences of apply produce
Statuses ==
    {RetryStatus0,
     [iteration_number |-> 1, cumulative_delay |-> 1, previous_delay |-> Some(1)],
     [iteration_number |-> 2, cumulative_delay |-> 2, previous_delay |-> Some(0)],
     [iteration_number |-> 3, cumulative_delay |-> 5, previous_delay |-> Some(2)]}

InitPure ==
    /\ policy \in PurePolicies
    /\ policy_before_ = neverRetry
    /\ policy_after_ = neverRetry
    /\ caller = [always |-> FALSE, failures |-> 0]
    /\ cond = FALSE
    /\ cv_mutex = "free"
    /\ notified = FALSE
    /\ pc = "done"
    /\ status = RetryStatus0
    /\ result = 0
    /\ new_status = NoStatus
    /\ returned = 0
    /\ status0 = RetryStatus0
    /\ ostatus = NoStatus
    /\ remaining = 0
    /\ spc = "idle"
    /\ sval = FALSE
    /\ signals = 0
    /\ hist = Hist0
    /\ now = 0
    /\ in_status \in Statuses
    /\ out = Out0

NextPure == DoCall \/ DoApply \/ DoSimulate \/ ClockTick

SpecPure == InitPure /\ [][NextPure]_vars

(***************************************************************************)
(* Properties of the pure operations, checked under SpecPure.              *)
(***************************************************************************)
\* C7: apply returns stop exactly when the decision function returns no
\* delay, and otherwise the input status with iteration_number + 1,
\* cumulative_delay + delay and previous_delay = delay, for a delay the
\* decision function can return at that status; the decision function is
\* evaluated once.
C7_Apply ==
    out.op = "apply" =>
        LET r == out.applied IN
        /\ r.calls = 1
        /\ r.odelay \in {o.delay : o \in call(policy, in_status, now)}
        /\ r.ostatus.has <=> r.odelay.has
        /\ r.ostatus.has =>
              /\ r.ostatus.val.iteration_number = in_status.iteration_number + 1
              /\ r.ostatus.val.cumulative_delay = in_status.cumulative_delay + r.odelay.val
              /\ r.ostatus.val.previous_delay = Some(r.odelay.val)

\* apply added a positive delay to a positive cumulative_delay
C7_Witness ==
    /\ out.op = "apply" /\ out.applied.ostatus.has
    /\ in_status.cumulative_delay > 0
    /\ out.applied.odelay.val > 0

\* sum of the first k previous_delay values of a vector of statuses
RECURSIVE SumDelays(_, _)
SumDelays(xs, k) == IF k = 0 THEN 0 ELSE SumDelays(xs, k - 1) + xs[k].previous_delay.val

\* no evaluation of p draws from the random source or reads the clock
RECURSIVE Deterministic(_)
Deterministic(p) ==
    /\ p.kind \notin {"fullJitter", "limitTimePoint"}
    /\ \A j \in 1..Len(p.sub) : Deterministic(p.sub[j])

\* C8: simulate(n) returns at most n statuses, each obtained by apply from
\* the one before it and the first from a fresh status, and fewer than n
\* only where the policy can stop; the k-th has iteration_number k and
\* cumulative_delay the sum of the first k previous_delay; a second call on
\* a deterministic policy with the same n returns the same vector;
\* constantDelay(100).simulate(3) has previous_delay 100 three times and
\* cumulative_delay 100, 200, 300.
C8_Simulate ==
    out.op = "simulate" =>
        LET xs == out.xs
            prior(k) == IF k = 1 THEN RetryStatus0 ELSE xs[k - 1]
        IN
        /\ Len(xs) <= out.n
        /\ \A k \in 1..Len(xs) :
              /\ xs[k].iteration_number = k
              /\ xs[k].previous_delay.has
              /\ xs[k].cumulative_delay = SumDelays(xs, k)
              /\ \E r \in apply(policy, prior(k), now) : r.ostatus = Some(xs[k])
        /\ Len(xs) < out.n =>
              \E r \in apply(policy, prior(Len(xs) + 1), now) : ~r.ostatus.has
        /\ (out.hasPrev /\ out.prevN = out.n /\ Deterministic(policy)) => out.prevXs = xs
        /\ (policy = constantDelay(100) /\ out.n = 3) =>
              xs = << [iteration_number |-> 1, cumulative_delay |-> 100, previous_delay |-> Some(100)],
                      [iteration_number |-> 2, cumulative_delay |-> 200, previous_delay |-> Some(100)],
                      [iteration_number |-> 3, cumulative_delay |-> 300, previous_delay |-> Some(100)] >>

\* constantDelay(100).simulate(3) was called twice
C8_Witness ==
    /\ out.op = "simulate" /\ out.hasPrev
    /\ policy = constantDelay(100)
    /\ out.n = 3 /\ out.prevN = 3
    /\ Len(out.xs) = 3

Wrappers == {"capDelay", "limitRetriesByDelay", "limitCumulativeDelay", "limitTimePoint"}

\* C9: capDelay, limitRetriesByDelay, limitCumulativeDelay and
\* limitTimePoint evaluate the wrapped policy exactly once per call, and a
\* delay they return is the delay their stop decision was taken on (capped
\* by capDelay).
C9_WrappersEvaluateOnce ==
    (out.op = "call" /\ policy.kind \in Wrappers) =>
        /\ out.outcome.evals = 1
        /\ out.outcome.delay.has =>
              /\ out.outcome.checked.has
              /\ out.outcome.delay.val =
                    IF policy.kind = "capDelay"
                    THEN Min(policy.arg, out.outcome.checked.val)
                    ELSE out.outcome.checked.val

\* the delays (or stop) an evaluation of p at in_status can return
Delays(p) == {o.delay : o \in call(p, in_status, now)}

\* C10: combine(x, y) returns stop if x or y returns stop at the status and
\* the larger of the two delays otherwise; combine(x, y) and combine(y, x)
\* return the same; combine(constantDelay(d), limitRetries(0)) stops at
\* every status.
C10_Combine ==
    (out.op = "call" /\ policy.kind = "combine") =>
        LET x == policy.sub[1]
            y == policy.sub[2]
            d == out.outcome.delay
        IN
        /\ \E dx \in Delays(x) : \E dy \in Delays(y) :
              IF ~dx.has \/ ~dy.has
              THEN ~d.has
              ELSE /\ d.has
                   /\ d.val >= dx.val /\ d.val >= dy.val
                   /\ d.val \in {dx.val, dy.val}
        /\ ((\E dx \in Delays(x) : ~dx.has) \/ (\E dy \in Delays(y) : ~dy.has)) => ~d.has
        /\ Delays(combine(x, y)) = Delays(combine(y, x))
        /\ (x.kind = "constantDelay" /\ y = limitRetries(0)) => ~d.has

\* combine of two constant delays returned the larger one
C10_Witness ==
    /\ out.op = "call"
    /\ policy = combine(constantDelay(1), constantDelay(2))
    /\ out.outcome.delay = Some(2)

\* C12: limitCumulativeDelay(limit, P) returns P's delay unless P stops or
\* P's delay plus status.cumulative_delay is limit or more, and then it
\* stops; every status apply or simulate produces under it has
\* cumulative_delay < limit; limitCumulativeDelay(250, constantDelay(100))
\* .simulate(10) is exactly two statuses, with cumulative_delay 100 and 200.
C12_LimitCumulativeDelay ==
    /\ policy.kind = "limitCumulativeDelay" =>
         /\ out.op = "call" =>
              /\ out.outcome.checked \in
                     {o.delay : o \in call(policy.sub[1], in_status, now)}
              /\ out.outcome.delay =
                     IF \/ ~out.outcome.checked.has
                        \/ out.outcome.checked.val + in_status.cumulative_delay >= policy.arg
                     THEN Nullopt
                     ELSE out.outcome.checked
         /\ out.op = "apply" /\ out.applied.ostatus.has =>
              out.applied.ostatus.val.cumulative_delay < policy.arg
         /\ out.op = "simulate" =>
              \A k \in 1..Len(out.xs) : out.xs[k].cumulative_delay < policy.arg
    /\ policy = limitCumulativeDelay(250, constantDelay(100)) =>
         /\ out.op = "simulate" /\ out.n >= 3 =>
              /\ Len(out.xs) = 2
              /\ out.xs[1].cumulative_delay = 100
              /\ out.xs[2].cumulative_delay = 200
         /\ simulate(policy, 10, now) =
              {<<[iteration_number |-> 1, cumulative_delay |-> 100,
                  previous_delay |-> Some(100)],
                 [iteration_number |-> 2, cumulative_delay |-> 200,
                  previous_delay |-> Some(100)]>>}

C12_Witness ==
    /\ policy = limitCumulativeDelay(250, constantDelay(100))
    /\ out.op = "simulate"
    /\ out.n = MaxSimN
    /\ Len(out.xs) = 2
    /\ out.xs[2].cumulative_delay = 200

\* what limitRetries(n).simulate(k) is to return for k >= n
LimitRetriesStatuses(n) ==
    [k \in 1..n |-> [iteration_number |-> k, cumulative_delay |-> 0,
                     previous_delay |-> Some(0)]]

\* C15: limitRetries(n) stops at a status exactly when its iteration_number
\* is n or more and otherwise returns the delay 0; limitRetries(n)
\* .simulate(n + 5) is exactly n statuses, with iteration_number 1..n in
\* order and previous_delay = cumulative_delay = 0.
C15_LimitRetries ==
    /\ policy.kind = "limitRetries" =>
         /\ out.op = "call" =>
              /\ ~out.outcome.delay.has <=> in_status.iteration_number >= policy.arg
              /\ out.outcome.delay.has => out.outcome.delay.val = 0
         /\ out.op = "simulate" /\ out.n >= policy.arg =>
              out.xs = LimitRetriesStatuses(policy.arg)
    /\ \A n \in 0..MaxSimN :
         simulate(limitRetries(n), n + 5, now) = {LimitRetriesStatuses(n)}

C15_Witness ==
    /\ policy = limitRetries(2)
    /\ out.op = "simulate"
    /\ out.n = MaxSimN
    /\ Len(out.xs) = 2

(***************************************************************************)
(* The delay-shaping policies of the catalogue, evaluated at statuses      *)
(* early and late in a retry sequence.                                     *)
(***************************************************************************)
\* policies with base 1, evaluated at every status
UnitPolicies ==
    {exponentialBackoff(1), capDelay(2, exponentialBackoff(1)),
     fullJitterBackoff(1), equalJitterBackoff(1),
     fullJitter(2), equalJitter(3), equalJitter(4),
     decorrelatedJitterBackoff(1),
     capDelay(2, decorrelatedJitterBackoff(1)),
     limitRetriesByDelay(2, decorrelatedJitterBackoff(1)),
     limitCumulativeDelay(3, decorrelatedJitterBackoff(1)),
     limitTimePoint(3, decorrelatedJitterBackoff(1)),
     combine(decorrelatedJitterBackoff(1), constantDelay(1)),
     combine(constantDelay(1), decorrelatedJitterBackoff(1))}

\* policies with a larger base, evaluated at the early statuses
ScaledPolicies ==
    {exponentialBackoff(3), capDelay(4, exponentialBackoff(3)),
     fullJitterBackoff(3), equalJitterBackoff(3)}

\* statuses of the first iterations
EarlyStatuses ==
    {RetryStatus0,
     [iteration_number |-> 1, cumulative_delay |-> 1, previous_delay |-> Some(1)],
     [iteration_number |-> 2, cumulative_delay |-> 3, previous_delay |-> Some(2)]}

\* the status after 31 retries without delay, and a status whose previous
\* delay was 800 s
LateStatuses ==
    {[iteration_number |-> 31, cumulative_delay |-> 0, previous_delay |-> Some(0)],
     [iteration_number |-> 2, cumulative_delay |-> 800000001,
      previous_delay |-> Some(800000000)]}

InitCatalogue ==
    /\ \/ policy \in UnitPolicies /\ in_status \in EarlyStatuses \cup LateStatuses
       \/ policy \in ScaledPolicies /\ in_status \in EarlyStatuses
    /\ policy_before_ = neverRetry
    /\ policy_after_ = neverRetry
    /\ caller = [always |-> FALSE, failures |-> 0]
    /\ cond = FALSE
    /\ cv_mutex = "free"
    /\ notified = FALSE
    /\ pc = "done"
    /\ status = RetryStatus0
    /\ result = 0
    /\ new_status = NoStatus
    /\ returned = 0
    /\ status0 = RetryStatus0
    /\ ostatus = NoStatus
    /\ remaining = 0
    /\ spc = "idle"
    /\ sval = FALSE
    /\ signals = 0
    /\ hist = Hist0
    /\ now = 0
    /\ out = Out0

NextCatalogue == DoCall \/ DoApply \/ DoSimulate

SpecCatalogue == InitCatalogue /\ [][NextCatalogue]_vars

(***************************************************************************)
(* Properties of the catalogue, checked under SpecCatalogue.               *)
(***************************************************************************)
\* base * 2^i > max, for base >= 1 and max < 2^20
ExceedsCap(base, i, max) == IF i <= 20 THEN base * Pow2(i) > max ELSE TRUE

\* the status was produced by capDelay(max, exponentialBackoff(base)) at
\* iteration i: its previous_delay is at most max, and is max when the
\* uncapped delay base * 2^i exceeds max
Capped(st, base, i, max) ==
    /\ st.previous_delay.has
    /\ st.previous_delay.val <= max
    /\ ExceedsCap(base, i, max) => st.previous_delay.val = max

\* C13: capDelay(max, P) stops exactly when P stops and otherwise returns
\* min(max, P(status)); every status capDelay(max, exponentialBackoff(base))
\* produces has previous_delay <= max, and previous_delay = max when the
\* uncapped delay base * 2^i exceeds max.
C13_CapDelay ==
    policy.kind = "capDelay" =>
      /\ out.op = "call" =>
           /\ out.outcome.checked \in
                  {o.delay : o \in call(policy.sub[1], in_status, now)}
           /\ out.outcome.delay =
                  IF out.outcome.checked.has
                  THEN Some(Min(policy.arg, out.outcome.checked.val))
                  ELSE Nullopt
      /\ policy.sub[1].kind = "exponentialBackoff" =>
           /\ out.op = "apply" =>
                /\ out.applied.ostatus.has
                /\ Capped(out.applied.ostatus.val, policy.sub[1].arg,
                          in_status.iteration_number, policy.arg)
           /\ out.op = "simulate" =>
                /\ Len(out.xs) = out.n
                /\ \A k \in 1..Len(out.xs) :
                      Capped(out.xs[k], policy.sub[1].arg, k - 1, policy.arg)

\* v = base * 2^i, computed without forming a number beyond 2^31
RECURSIVE IsScaledPow2(_, _, _)
IsScaledPow2(v, base, i) ==
    IF i <= 20
    THEN v = base * Pow2(i)
    ELSE v >= 0 /\ v % 2 = 0 /\ IsScaledPow2(v \div 2, base, i - 1)

\* C14: exponentialBackoff(base) never stops and at a status with
\* iteration_number i returns the delay base * 2^i, so the status with
\* iteration_number i + 1 has previous_delay = base * 2^i, also for the i
\* at which 2^i does not fit a 32-bit int; the delays are never negative
\* and never decrease.
C14_ExponentialBackoff ==
    policy.kind = "exponentialBackoff" =>
      /\ out.op = "call" =>
           /\ out.outcome.delay.has
           /\ IsScaledPow2(out.outcome.delay.val, policy.arg, in_status.iteration_number)
      /\ out.op = "apply" =>
           /\ out.applied.ostatus.has
           /\ out.applied.ostatus.val.iteration_number = in_status.iteration_number + 1
           /\ IsScaledPow2(out.applied.ostatus.val.previous_delay.val, policy.arg,
                           in_status.iteration_number)
      /\ out.op = "simulate" =>
           /\ Len(out.xs) = out.n
           /\ \A k \in 1..Len(out.xs) :
                 /\ out.xs[k].iteration_number = k
                 /\ IsScaledPow2(out.xs[k].previous_delay.val, policy.arg, k - 1)
                 /\ out.xs[k].previous_delay.val >= 0
                 /\ k > 1 => out.xs[k].previous_delay.val >= out.xs[k - 1].previous_delay.val

\* v <= base * 2^i, for base * 2^i < 2^31 when i <= 30; a 32-bit v is below
\* base * 2^i for every later i
AtMostScaledPow2(v, base, i) == IF i <= 30 THEN v <= base * Pow2(i) ELSE TRUE

\* h <= v <= 2 * h for h = (base * 2^i) / 2
InEqualJitterRange(v, base, i) ==
    IF i <= 30
    THEN LET h == CDiv(base * Pow2(i), 2) IN h <= v /\ v <= 2 * h
    ELSE base * Pow2(30) <= v

\* C16: whatever the random source supplies, a jitter policy never stops
\* and returns a delay that is not negative and within its bound, at every
\* iteration: fullJitter(max) in [0, max], equalJitter(max) in [max/2, max],
\* fullJitterBackoff(base) in [0, base * 2^i] and equalJitterBackoff(base) in
\* [h, 2h] for h = base * 2^i / 2.
C16_JitterBounds ==
    out.op = "call" =>
      LET v == out.outcome.delay.val
          i == in_status.iteration_number
      IN  /\ policy.kind \in {"fullJitter", "equalJitter", "fullJitterBackoff",
                              "equalJitterBackoff"} =>
                out.outcome.delay.has /\ v >= 0
          /\ policy.kind = "fullJitter" => v <= policy.arg
          /\ policy.kind = "equalJitter" =>
                CDiv(policy.arg, 2) <= v /\ v <= policy.arg
          /\ policy.kind = "fullJitterBackoff" => AtMostScaledPow2(v, policy.arg, i)
          /\ policy.kind = "equalJitterBackoff" => InEqualJitterRange(v, policy.arg, i)

\* the policy is decorrelatedJitterBackoff, alone or inside capDelay, a
\* limit wrapper or a combination
RECURSIVE UsesDecorrelated(_)
UsesDecorrelated(p) ==
    \/ p.kind = "decorrelatedJitterBackoff"
    \/ \E k \in 1..Len(p.sub) : UsesDecorrelated(p.sub[k])

\* 0 <= v <= 3 * p, computed without forming 3 * p
InDecorrelatedRange(v, p) ==
    v >= 0 /\ (v \div 3) + (IF v % 3 = 0 THEN 0 ELSE 1) <= p

\* C17: decorrelatedJitterBackoff(base) stops at a status without
\* previous_delay and at a status with previous_delay = p returns a delay in
\* [0, 3p]; alone or inside capDelay, a limit wrapper or a combination it
\* stops at a fresh status, so simulate returns no status.
C17_Decorrelated ==
    /\ policy.kind = "decorrelatedJitterBackoff" /\ out.op = "call" =>
         IF in_status.previous_delay.has
         THEN /\ out.outcome.delay.has
              /\ InDecorrelatedRange(out.outcome.delay.val, in_status.previous_delay.val)
         ELSE ~out.outcome.delay.has
    /\ UsesDecorrelated(policy) =>
         /\ out.op = "call" /\ in_status = RetryStatus0 => ~out.outcome.delay.has
         /\ out.op = "apply" /\ in_status = RetryStatus0 => ~out.applied.ostatus.has
         /\ out.op = "simulate" => out.xs = <<>>

(***************************************************************************)
(* PreemptibleRetry::simulate, evaluated for pairs of policies.            *)
(***************************************************************************)
\* PreemptibleRetry(policy_before_, policy_after_).simulate(n_before, n_after)
DoSimulatePreemptible ==
    /\ \E n_before \in 0..MaxSimN : \E n_after \in 0..MaxSimN :
         \E xs \in simulatePreemptible(policy_before_, policy_after_,
                                       n_before, n_after, now) :
            out' = [Out0 EXCEPT !.op = "simulatePreemptible", !.n = n_before,
                                !.n_after = n_after, !.xs = xs]
    /\ UNCHANGED <<objVars, sharedVars, signalVars, hist, now, in_status,
                   pc, status, result, new_status, returned, status0, ostatus, remaining>>

SimulateBefore == {limitRetries(1), limitRetries(2), constantDelay(1), fullJitter(1)}
SimulateAfter == {limitRetries(1), constantDelay(2), fullJitter(1)}

InitSimulatePreemptible ==
    /\ policy = neverRetry
    /\ policy_before_ \in SimulateBefore
    /\ policy_after_ \in SimulateAfter
    /\ caller = [always |-> FALSE, failures |-> 0]
    /\ cond = FALSE
    /\ cv_mutex = "free"
    /\ notified = FALSE
    /\ pc = "done"
    /\ status = RetryStatus0
    /\ result = 0
    /\ new_status = NoStatus
    /\ returned = 0
    /\ status0 = RetryStatus0
    /\ ostatus = NoStatus
    /\ remaining = 0
    /\ spc = "idle"
    /\ sval = FALSE
    /\ signals = 0
    /\ hist = Hist0
    /\ now = 0
    /\ in_status = RetryStatus0
    /\ out = Out0

NextSimulatePreemptible == DoSimulatePreemptible

SpecSimulatePreemptible == InitSimulatePreemptible /\ [][NextSimulatePreemptible]_vars

\* the statuses xs of one phase, each with condition_signalled = signalled
Phase(xs, signalled) == [k \in 1..Len(xs) |-> PreemptibleRetryStatus(xs[k], signalled)]

\* C11: PreemptibleRetry.simulate(n_before, n_after) returns what
\* policy_before_.simulate(n_before) returns, each status with
\* condition_signalled = false, followed by what policy_after_.simulate(n_after)
\* returns, each with condition_signalled = true: the after phase is there,
\* and starts from a fresh status, also when the before policy stopped
\* before n_before statuses.
C11_SimulateBothPhases ==
    out.op = "simulatePreemptible" =>
        \E b \in simulate(policy_before_, out.n, now) :
          \E a \in simulate(policy_after_, out.n_after, now) :
             out.xs = Phase(b, FALSE) \o Phase(a, TRUE)

====
